---- MODULE Spec2Model ----
(***************************************************************************)
(* Model of the MentisAI hybrid AI response router.                        *)
(*                                                                         *)
(*   Spec       the browser-side hook useAI.sendMessage (Groq primary,     *)
(*              Gemini fallback, Gemini Vision for images) driven by       *)
(*              App.handleSubmit with the Firestore chat store.            *)
(*   SpecProxy  the server-proxied hook useAI.sendMessage posting to the   *)
(*              /api/chat handler.                                         *)
(*                                                                         *)
(* Strings are sequences of tokens; concatenation is \o.                   *)
(***************************************************************************)
EXTENDS Integers, Sequences, FiniteSets, TLC

(* ---------------- bounds ---------------- *)
\* number of chat submissions (handleSubmit invocations) in one behaviour
MaxSubs == 1
\* number of sendMessage calls made directly on the hook in one behaviour
MaxCalls == 2

(* ---------------- value domains ---------------- *)
NULL == "null"
\* Firestore document ids: the chat stored before the session starts, and
\* the chat created by the n-th submission
OldChat == "c0"
ChatNames == <<"c1", "c2", "c3", "c4">>
NewChatId(n) == ChatNames[n]
\* the text typed for the n-th submission (texts are opaque, so one
\* representative per submission)
QTexts == <<"q1", "q2", "q3", "q4">>
UserText(n) == <<QTexts[n]>>
\* sessions: subject selector, Socratic toggle, stored language, kind of user
Sessions == {[subject |-> "Math", socraticMode |-> FALSE, language |-> "en", isAnonymous |-> FALSE],
             [subject |-> "Coding", socraticMode |-> TRUE, language |-> "es", isAnonymous |-> TRUE]}
\* enum Subject
Subjects == {"Math", "Physics", "Chemistry", "History", "Biology", "Literature", "Coding", "General"}
\* values of localStorage 'preferredLanguage': the default, a supported
\* language, and a code that is not in SUPPORTED_LANGUAGES
Languages == {"en", "es", "xx"}
GroqTexts == {<<"g1">>}
GeminiTexts == {<<"m1">>}
GroqErrors == {"groq 500"}
GeminiErrors == {"gemini 500"}

NoAttachment == [type |-> "none", content |-> <<>>, fileName |-> "", mimeType |-> ""]
TextAttachment == [type |-> "text", content |-> <<"code">>, fileName |-> "a.py", mimeType |-> "text/x-python"]
ImageAttachment == [type |-> "image", content |-> <<"data:image/png;base64", ",", "b64">>, fileName |-> "d.png", mimeType |-> "image/png"]
Attachments == {NoAttachment, TextAttachment, ImageAttachment}

UserMsg(text, att) == [role |-> "user", content |-> text, attachment |-> att]
ModelMsg(text) == [role |-> "model", content |-> text, attachment |-> NoAttachment]

ErrorText == <<"Error: Unable to process request.">>
DefaultErrorMessage == "I'm having trouble connecting right now. Please try again."

(* ---------------- string helpers ---------------- *)
\* JavaScript undefined, where a string is expected
Undefined == <<"undefined">>
\* JavaScript truthiness of a string-or-undefined value
Truthy(s) == s # Undefined /\ s # <<>>

Range(s) == {s[i] : i \in 1..Len(s)}

IndexOf(s, tok) == IF tok \in Range(s) THEN CHOOSE i \in 1..Len(s) : s[i] = tok /\ \A j \in 1..(i-1) : s[j] # tok ELSE 0

\* String.prototype.split(',')[1]: the part between the first and the second
\* comma, or undefined when there is no comma.
SplitComma1(s) ==
  LET i == IndexOf(s, ",") IN
  IF i = 0 THEN Undefined
  ELSE LET rest == SubSeq(s, i + 1, Len(s))
           j == IndexOf(rest, ",")
       IN IF j = 0 THEN rest ELSE SubSeq(rest, 1, j - 1)

(* ---------------- i18n ---------------- *)
getLanguageName(code) == IF code = "es" THEN "Espanol" ELSE "English"

getLanguageInstruction(code) ==
  IF code = "en" THEN <<>>
  ELSE <<"\n\nIMPORTANT: You MUST respond entirely in ", getLanguageName(code), code>>

(* ---------------- prompt construction ---------------- *)
\* the subjects that geminiService.getSystemInstruction gives the LaTeX
\* directive to
MathFamily == {"Math", "Physics", "Chemistry"}

\* Mutant: the mode blocks are appended by independent tests, not an else-if
\* chain.
ModeBlock_Independent(socraticMode, reasoningMode) ==
  (IF reasoningMode THEN <<"MODE: Deep Reasoning">> ELSE <<>>)
  \o (IF socraticMode THEN <<"MODE: Socratic Tutor">> ELSE <<>>)
  \o (IF ~reasoningMode /\ ~socraticMode THEN <<"MODE: Direct Answer">> ELSE <<>>)

ModeBlock(socraticMode, reasoningMode) ==
  IF reasoningMode THEN <<"MODE: Deep Reasoning">>
  ELSE IF socraticMode THEN <<"MODE: Socratic Tutor">>
  ELSE <<"MODE: Direct Answer">>

SubjectDirective(subject) ==
  (IF subject = "Math" THEN <<" Use LaTeX for math equations.">> ELSE <<>>)
  \o (IF subject = "Coding" THEN <<" Provide clean, commented code snippets.">> ELSE <<>>)

SystemInstruction(subject, socraticMode, reasoningMode, language) ==
  <<"You are an expert Tutor specialized in ", subject, ". IMPORTANT: Always use proper grammar">>
  \o ModeBlock(socraticMode, reasoningMode)
  \o SubjectDirective(subject)
  \o getLanguageInstruction(language)

(* ---------------- history adapters ---------------- *)
\* const history = previousMessages.map(...)   (Gemini chat shape)
GeminiHistory(previousMessages) ==
  [i \in 1..Len(previousMessages) |->
     [role |-> IF previousMessages[i].role = "user" THEN "user" ELSE "model",
      text |-> previousMessages[i].content
               \o (IF previousMessages[i].attachment.type # "none"
                   THEN <<"\n[Attachment: ", previousMessages[i].attachment.fileName, "]">>
                   ELSE <<>>)]]

\* const messagesForAI = [...]   (Groq / OpenAI chat shape)
MessagesForAI(systemInstruction, previousMessages, text, attachment) ==
  <<[role |-> "system", content |-> systemInstruction]>>
  \o [i \in 1..Len(previousMessages) |->
        [role |-> IF previousMessages[i].role = "user" THEN "user" ELSE "assistant",
         content |-> previousMessages[i].content
                     \o (IF previousMessages[i].attachment.type = "text"
                         THEN <<"\n[File]: ">> \o previousMessages[i].attachment.content
                         ELSE <<>>)]]
  \o <<[role |-> "user",
        content |-> text \o (IF attachment.type = "text"
                             THEN <<"\n[File]: ">> \o attachment.content
                             ELSE <<>>)]>>

\* the message handed to chat.sendMessage on the fallback leg
FallbackUserMessage(text, attachment) ==
  text \o (IF attachment.type = "text" THEN <<"\n\nFile Content:\n">> \o attachment.content ELSE <<>>)

(* ---------------- state ---------------- *)
VARIABLES
  activeChatId,      \* App: useState activeChatId (NULL = new-chat state)
  activeSubject,     \* App: useState activeSubject
  socraticMode,      \* App: useState socraticMode
  preferredLanguage, \* localStorage 'preferredLanguage'
  isAnonymous,       \* user.isAnonymous
  groqApiKey,        \* import.meta.env.VITE_GROQ_API_KEY is set
  store,             \* Firestore: chat id -> [exists, title, messages, ids, added]
  subs,              \* handleSubmit invocations, in order of invocation
  isLoading,         \* useAI: useState isLoading
  error,             \* useAI: useState error
  statusMessage,     \* useAI: useState statusMessage
  px,                \* server-proxied variant: the sendMessage call and its /api/chat request
  tools,             \* ToolsPage / NotesHubPage: the flashcard and quiz generation handlers
  bubble,            \* ChatBubble: the typewriter reveal of one AI message
  parser             \* ReasoningBlockParser: the raw response text and its segments

vars == <<activeChatId, activeSubject, socraticMode, preferredLanguage, isAnonymous,
          groqApiKey, store, subs, isLoading, error, statusMessage, px, tools, bubble, parser>>

appVars == <<activeChatId, activeSubject, socraticMode>>
envVars == <<preferredLanguage, isAnonymous, groqApiKey>>
hookVars == <<isLoading, error, statusMessage>>
pageVars == <<tools, bubble, parser>>

(* ---------------- useAI.sendMessage (browser-side) ---------------- *)
NoCall == [pc |-> "none", text |-> <<>>, subject |-> "", previousMessages |-> <<>>,
           attachment |-> NoAttachment, socraticMode |-> FALSE, reasoningMode |-> FALSE,
           language |-> "", systemInstruction |-> <<>>, log |-> <<>>, status |-> <<>>,
           events |-> <<>>, result |-> <<>>, errorMessage |-> NULL]

Last(s) == s[Len(s)]
SetLastOutcome(log, outcome, text) ==
  [log EXCEPT ![Len(log)] = [@ EXCEPT !.outcome = outcome, !.text = text]]

\* setStatusMessage(label)
Emit(call, label) ==
  [call EXCEPT !.status = Append(@, label), !.events = Append(@, <<"status", label>>)]

\* a provider request leaves and the call is suspended at its await
Issue(call, req) ==
  [call EXCEPT !.pc = IF req.leg = "primary" THEN "groq" ELSE req.leg,
               !.log = Append(@, req), !.events = Append(@, <<"request", req.leg>>)]

\* the awaited provider call resolves ("ok") or rejects ("fail")
Observe(call, outcome, text) ==
  [call EXCEPT !.log = SetLastOutcome(@, outcome, text), !.events = Append(@, <<"outcome", outcome>>)]

\* throw new Error(message) inside the inner try, before any request
Throw(call, message) == [call EXCEPT !.events = Append(@, <<"throw", message>>)]

GeminiRequest(leg, systemInstruction, previousMessages, message, image) ==
  [provider |-> "gemini", leg |-> leg, systemInstruction |-> systemInstruction,
   history |-> GeminiHistory(previousMessages), message |-> message, image |-> image,
   messages |-> <<>>, temperature |-> 0, max_tokens |-> 0, outcome |-> "pending", text |-> <<>>]

GroqRequest(messagesForAI, reasoningMode) ==
  [provider |-> "groq", leg |-> "primary", systemInstruction |-> <<>>,
   history |-> <<>>, message |-> <<>>, image |-> <<>>,
   messages |-> messagesForAI,
   temperature |-> IF reasoningMode THEN 3 ELSE 7,
   max_tokens |-> IF reasoningMode THEN 2048 ELSE 1024, outcome |-> "pending", text |-> <<>>]

\* Mutant: the backup label is set only after the fallback request has left.
StartFallback_LateStatus(call) ==
  Emit(Issue(call, GeminiRequest("fallback", call.systemInstruction, call.previousMessages,
                                 FallbackUserMessage(call.text, call.attachment), <<>>)),
       "Using backup model...")

\* Mutant: the fallback request replays the history of the call started last
\* on the hook (a history buffer shared by the calls).
StartFallback_SharedHistory(call) ==
  Issue(Emit(call, "Using backup model..."),
        GeminiRequest("fallback", call.systemInstruction,
                      IF subs = <<>> THEN call.previousMessages ELSE Last(subs).main.previousMessages,
                      FallbackUserMessage(call.text, call.attachment), <<>>))

\* The part of the catch (groqError) block up to its await: status label and
\* the Gemini text-only request.
StartFallback(call) ==
  Issue(Emit(call, "Using backup model..."),
        GeminiRequest("fallback", call.systemInstruction, call.previousMessages,
                      FallbackUserMessage(call.text, call.attachment), <<>>))

\* the arguments of a call and the statements before the outer try
CallBase(text, subject, previousMessages, attachment, socratic, reasoningMode, language) ==
  Emit([NoCall EXCEPT !.text = text, !.subject = subject, !.previousMessages = previousMessages,
                      !.attachment = attachment, !.socraticMode = socratic,
                      !.reasoningMode = reasoningMode, !.language = language,
                      !.systemInstruction = SystemInstruction(subject, socratic, reasoningMode, language)],
       IF reasoningMode THEN "Reasoning deeply..." ELSE "Thinking...")

\* Route 1: image attachments
VisionStart(base) ==
  Issue(Emit(base, "Analyzing image..."),
        GeminiRequest("vision", base.systemInstruction, base.previousMessages, base.text,
                      SplitComma1(base.attachment.content)))

\* Route 2, the Groq request
GroqStart(base) ==
  Issue(base, GroqRequest(MessagesForAI(base.systemInstruction, base.previousMessages,
                                        base.text, base.attachment), base.reasoningMode))

\* Mutant: the Groq request and the Gemini text request are issued together.
SendMessageStart_Eager(text, subject, previousMessages, attachment, socratic, reasoningMode, language, keyPresent) ==
  LET base == CallBase(text, subject, previousMessages, attachment, socratic, reasoningMode, language)
  IN IF attachment.type = "image" THEN VisionStart(base)
     ELSE IF ~keyPresent THEN StartFallback(Throw(base, "Groq API Key missing"))
     ELSE [Issue(GroqStart(base),
                 GeminiRequest("fallback", base.systemInstruction, previousMessages,
                               FallbackUserMessage(text, attachment), <<>>))
           EXCEPT !.pc = "groq"]

\* Mutant: a missing Groq key ends the call at once, no provider is called.
SendMessageStart_KeyFatal(text, subject, previousMessages, attachment, socratic, reasoningMode, language, keyPresent) ==
  LET base == CallBase(text, subject, previousMessages, attachment, socratic, reasoningMode, language)
  IN IF attachment.type = "image" THEN VisionStart(base)
     ELSE IF ~keyPresent
     THEN [Throw(base, "Groq API Key missing")
           EXCEPT !.pc = "done", !.result = ErrorText, !.errorMessage = "Groq API Key missing"]
     ELSE GroqStart(base)

\* sendMessage from its entry to its first await: the call record with the
\* first provider request issued.
SendMessageStart(text, subject, previousMessages, attachment, socratic, reasoningMode, language, keyPresent) ==
  LET base == CallBase(text, subject, previousMessages, attachment, socratic, reasoningMode, language)
  IN IF attachment.type = "image" THEN VisionStart(base)
     ELSE IF ~keyPresent THEN StartFallback(Throw(base, "Groq API Key missing"))
     ELSE GroqStart(base)

\* Mutant: a completion obtained on the fallback leg is returned with a note.
CallSucceeds_Annotate(call, text) ==
  [Observe(call, "ok", text) EXCEPT
     !.pc = "done",
     !.result = IF Last(call.log).leg = "fallback" THEN <<"(backup) ">> \o text ELSE text]

\* try-block return on a provider's completion
CallSucceeds(call, text) ==
  [Observe(call, "ok", text) EXCEPT !.pc = "done", !.result = text]

\* Mutant: the provider's error message is returned to the caller.
CallFails_Raw(call, message) ==
  [Observe(call, "fail", <<>>) EXCEPT
     !.pc = "done", !.result = <<message>>,
     !.errorMessage = IF message = "" THEN DefaultErrorMessage ELSE message]

\* Mutant: a failed vision call is tried a second time.
CallFails_RetryVision(call, message) ==
  IF Last(call.log).leg = "vision" /\ Len(call.log) = 1
  THEN Issue(Observe(call, "fail", <<>>), call.log[1])
  ELSE [Observe(call, "fail", <<>>) EXCEPT
          !.pc = "done", !.result = ErrorText,
          !.errorMessage = IF message = "" THEN DefaultErrorMessage ELSE message]

\* outer catch: setError(error.message || default); return the fixed text
CallFails(call, message) ==
  [Observe(call, "fail", <<>>) EXCEPT
     !.pc = "done", !.result = ErrorText,
     !.errorMessage = IF message = "" THEN DefaultErrorMessage ELSE message]

\* Mutant: a failed Groq call is tried a second time before falling back.
GroqFails_Retry(call) ==
  IF Len(call.log) = 1
  THEN Issue(Observe(call, "fail", <<>>), call.log[1])
  ELSE StartFallback(Observe(call, "fail", <<>>))

\* inner catch after a Groq failure
GroqFails(call) == StartFallback(Observe(call, "fail", <<>>))

InFlight(call) == call.pc \in {"groq", "vision", "fallback"}

\* the label a call has set most recently
CurrentStatus(call) == Last(call.status)

(* ---------------- Firestore (useChat / useChatList) ---------------- *)
ChatIdSet == {OldChat} \cup {NewChatId(n) : n \in 1..(IF MaxSubs > MaxCalls THEN MaxSubs ELSE MaxCalls)}

NoChatDoc == [exists |-> FALSE, title |-> <<>>, messages |-> <<>>, ids |-> <<>>, added |-> 0]

\* the conversation stored before the session starts
OldChatMessages ==
  <<UserMsg(<<"q0">>, TextAttachment), ModelMsg(<<"g1">>),
    UserMsg(<<"q0b">>, ImageAttachment), ModelMsg(<<"m1">>)>>

\* the document ids of the stored messages, in the order of the messages
DocIds(n) == [i \in 1..n |-> i]

OldChatDoc == [exists |-> TRUE, title |-> <<"old">>, messages |-> OldChatMessages,
               ids |-> DocIds(Len(OldChatMessages)), added |-> Len(OldChatMessages)]

TitleSliceLen == 30
\* createChat: initialMessage.slice(0, 30) + (length > 30 ? '...' : '')
TempTitle(initialMessage) ==
  SubSeq(initialMessage, 1, IF Len(initialMessage) < TitleSliceLen THEN Len(initialMessage) ELSE TitleSliceLen)
  \o (IF Len(initialMessage) > TitleSliceLen THEN <<"...">> ELSE <<>>)

\* addMessage: addDoc into chats/{targetChatId}/messages
AddMessage(st, targetChatId, msg) ==
  IF targetChatId = NULL THEN st
  ELSE [st EXCEPT ![targetChatId].messages = @ \o <<msg>>,
                  ![targetChatId].ids = Append(@, st[targetChatId].added + 1),
                  ![targetChatId].added = @ + 1]

\* renameChat: updateDoc fails (and is caught) when the document is missing
RenameChat(st, chatId, newTitle) ==
  IF st[chatId].exists THEN [st EXCEPT ![chatId].title = newTitle] ELSE st

\* useChat(activeChatId).messages, as rendered when a handler is invoked
Messages == IF activeChatId = NULL THEN <<>> ELSE store[activeChatId].messages

(* ---------------- App ---------------- *)
Quotes == {"\"", "'"}
\* title.replace(/^["']|["']$/g, '')
StripQuotes(title) ==
  LET a == IF Len(title) > 0 /\ title[1] \in Quotes THEN Tail(title) ELSE title
  IN IF Len(a) > 0 /\ a[Len(a)] \in Quotes THEN SubSeq(a, 1, Len(a) - 1) ELSE a

TitlePrompt(userText) ==
  <<"Summarize this query in 3-5 words for a chat title: ", "\"">> \o userText \o <<"\"">>

(* ---------------- server-proxied variant: records ---------------- *)
NoResponse == [status |-> 0, text |-> <<>>, error |-> ""]
NoBody == [prompt |-> <<>>, history |-> <<>>, fileData |-> Undefined, reasoningMode |-> FALSE,
           socraticMode |-> FALSE, subject |-> "", langInstruction |-> <<>>, mimeType |-> ""]
NoProxyCall == [pc |-> "idle", text |-> <<>>, previousMessages |-> <<>>, attachment |-> NoAttachment,
                method |-> "", authorization |-> <<>>, verified |-> FALSE, body |-> NoBody, upstream |-> <<>>, response |-> NoResponse,
                result |-> <<>>, errorMessage |-> NULL]

(* ---------------- pages and components: records ---------------- *)
NoTools == [pc |-> "idle", page |-> "", kind |-> "", call |-> NoCall, response |-> <<>>,
            jsonMatch |-> NULL, isGenerating |-> FALSE, notice |-> NULL, created |-> FALSE,
            runs |-> 0, requests |-> 0, alerts |-> <<>>, saved |-> <<>>]

NoBubble == [pc |-> "unmounted", content |-> <<>>, isMobile |-> FALSE, mountAge |-> 0, age |-> 0,
             shouldAnimate |-> FALSE, displayedContent |-> <<>>, currentIndex |-> 0,
             intervalId |-> FALSE]

NoParse == [pc |-> "raw", text |-> <<>>, segments |-> <<>>]

NoSub == [pc |-> "none", handler |-> "handleSubmit", lastMsgId |-> 0,
          userText |-> <<>>, subject |-> "", socraticMode |-> FALSE,
          attachment |-> NoAttachment, messages |-> <<>>, currentChatId |-> NULL,
          main |-> NoCall, title |-> NoCall]

Init ==
  /\ activeChatId = NULL
  /\ \E st \in Sessions :
       /\ activeSubject = st.subject
       /\ socraticMode = st.socraticMode
       /\ preferredLanguage = st.language
       /\ isAnonymous = st.isAnonymous
  /\ groqApiKey \in BOOLEAN
  /\ store = [c \in ChatIdSet |->
               IF c = OldChat
               THEN OldChatDoc
               ELSE NoChatDoc]
  /\ subs = <<>>
  /\ isLoading = FALSE
  /\ error = NULL
  /\ statusMessage = NULL
  /\ px = NoProxyCall
  /\ tools = NoTools
  /\ bubble = NoBubble
  /\ parser = NoParse

\* Sidebar: setActiveChatId(id) on a listed chat
SelectChat(c) ==
  /\ store[c].exists
  /\ activeChatId # c
  /\ activeChatId' = c
  /\ UNCHANGED <<activeSubject, socraticMode, envVars, pageVars, store, subs, hookVars, px>>

HandleNewChat ==
  /\ activeChatId' = NULL
  /\ activeSubject' = "Math"
  /\ UNCHANGED <<socraticMode, envVars, pageVars, store, subs, hookVars, px>>

\* the guard of handleSubmit: !input.trim() || isThinking || !userId, for a
\* signed-in user who has typed a text
HandleSubmitAccepts == ~isLoading

\* handleSubmit from its entry to its first await.  The typed text and the
\* selected attachment are the inputs; the other values are the ones of the
\* render in which the handler was created.
SubmitStep(att) ==
  /\ HandleSubmitAccepts
  /\ LET n == Len(subs) + 1 IN
     subs' = Append(subs,
               [NoSub EXCEPT !.pc = IF activeChatId = NULL THEN "createChat" ELSE "addMessage",
                             !.userText = UserText(n),
                             !.subject = activeSubject,
                             !.socraticMode = socraticMode,
                             !.attachment = att,
                             !.messages = Messages,
                             !.currentChatId = activeChatId])
  /\ UNCHANGED <<appVars, envVars, pageVars, store, hookVars, px>>

HandleSubmit(att) == Len(subs) < MaxSubs /\ SubmitStep(att)

\* Mutant: no submission sends the stored turns.
MainCallStart_NoHistory(sub) ==
  SendMessageStart(sub.userText, sub.subject, <<>>,
                   sub.attachment, sub.socraticMode, FALSE, preferredLanguage, groqApiKey)

\* the main orchestration call of submission s, started by handleSubmit
MainCallStart(sub) ==
  SendMessageStart(sub.userText, sub.subject,
                   IF isAnonymous THEN <<>> ELSE sub.messages,
                   sub.attachment, sub.socraticMode, FALSE, preferredLanguage, groqApiKey)

\* the background auto-title call
TitleCallStart(sub) ==
  SendMessageStart(TitlePrompt(sub.userText), sub.subject, <<>>, NoAttachment,
                   FALSE, FALSE, preferredLanguage, groqApiKey)

\* createChat fails: handleSubmit returns
CreateChatFails(s) ==
  /\ subs[s].pc = "createChat"
  /\ subs' = [subs EXCEPT ![s].pc = "done"]
  /\ UNCHANGED <<appVars, envVars, pageVars, store, hookVars, px>>

\* createChat resolves with the new id: setActiveChatId, launch the title
\* call, then the main call, up to the await of the main call
CreateChatReturns(s) ==
  /\ subs[s].pc = "createChat"
  /\ LET newId == NewChatId(s)
         sub == subs[s]
         main == MainCallStart(sub)
     IN /\ store' = [store EXCEPT ![newId] = [exists |-> TRUE, title |-> TempTitle(sub.userText),
                                             messages |-> <<UserMsg(sub.userText, sub.attachment)>>,
                                             ids |-> DocIds(1), added |-> 1]]
        /\ activeChatId' = newId
        /\ subs' = [subs EXCEPT ![s] = [sub EXCEPT !.pc = "awaitAI", !.currentChatId = newId,
                                                  !.title = TitleCallStart(sub), !.main = main]]
        /\ isLoading' = TRUE
        /\ error' = NULL
        /\ statusMessage' = CurrentStatus(main)
  /\ UNCHANGED <<activeSubject, socraticMode, envVars, pageVars, px>>

\* Mutant: a submission to an existing conversation launches a title call too.
AddMessageReturns_Titles(s) ==
  /\ subs[s].pc = "addMessage"
  /\ LET sub == subs[s]
         main == MainCallStart(sub)
     IN /\ store' = AddMessage(store, sub.currentChatId, UserMsg(sub.userText, sub.attachment))
        /\ subs' = [subs EXCEPT ![s] = [sub EXCEPT !.pc = "awaitAI", !.title = TitleCallStart(sub),
                                                  !.main = main]]
        /\ isLoading' = TRUE
        /\ error' = NULL
        /\ statusMessage' = CurrentStatus(main)
  /\ UNCHANGED <<appVars, envVars, pageVars, px>>

\* addMessage(userText, USER, attachment) resolves; the main call starts
AddMessageReturns(s) ==
  /\ subs[s].pc = "addMessage"
  /\ LET sub == subs[s]
         main == MainCallStart(sub)
     IN /\ store' = AddMessage(store, sub.currentChatId, UserMsg(sub.userText, sub.attachment))
        /\ subs' = [subs EXCEPT ![s] = [sub EXCEPT !.pc = "awaitAI", !.main = main]]
        /\ isLoading' = TRUE
        /\ error' = NULL
        /\ statusMessage' = CurrentStatus(main)
  /\ UNCHANGED <<appVars, envVars, pageVars, px>>

\* Mutant: the flags are reset on the success path only (no finally block).
Settle_NoFinally(s, which, call) ==
  /\ isLoading' = IF call.errorMessage # NULL THEN isLoading ELSE FALSE
  /\ statusMessage' = IF call.errorMessage # NULL THEN statusMessage ELSE NULL
  /\ error' = IF call.errorMessage # NULL THEN call.errorMessage ELSE error
  /\ IF which = "main"
     THEN /\ subs' = [subs EXCEPT ![s].main = call, ![s].pc = "done"]
          /\ store' = AddMessage(store, subs[s].currentChatId, ModelMsg(call.result))
     ELSE /\ subs' = [subs EXCEPT ![s].title = call]
          /\ store' = RenameChat(store, subs[s].currentChatId, StripQuotes(call.result))

\* Mutant: the response is added to the conversation that is active when the
\* call settles.
Settle_ActiveChat(s, which, call) ==
  /\ isLoading' = FALSE
  /\ statusMessage' = NULL
  /\ error' = IF call.errorMessage # NULL THEN call.errorMessage ELSE error
  /\ IF which = "main"
     THEN /\ subs' = [subs EXCEPT ![s].main = call, ![s].pc = "done"]
          /\ store' = AddMessage(store, activeChatId, ModelMsg(call.result))
     ELSE /\ subs' = [subs EXCEPT ![s].title = call]
          /\ store' = RenameChat(store, subs[s].currentChatId, StripQuotes(call.result))

\* What follows the settling of a call (finally block, then the caller's
\* continuation): which is "main" or "title", call is the settled record.
Settle(s, which, call) ==
  /\ isLoading' = FALSE
  /\ statusMessage' = NULL
  /\ error' = IF call.errorMessage # NULL THEN call.errorMessage ELSE error
  /\ IF which = "main"
     THEN /\ subs' = [subs EXCEPT ![s].main = call, ![s].pc = "done"]
          /\ store' = AddMessage(store, subs[s].currentChatId, ModelMsg(call.result))
     ELSE /\ subs' = [subs EXCEPT ![s].title = call]
          /\ store' = RenameChat(store, subs[s].currentChatId, StripQuotes(call.result))

CallOf(s, which) == IF which = "main" THEN subs[s].main ELSE subs[s].title

\* the Groq completion arrives with a non-empty content
GroqReturns(s, which, text) ==
  /\ CallOf(s, which).pc = "groq"
  /\ Settle(s, which, CallSucceeds(CallOf(s, which), text))
  /\ UNCHANGED <<appVars, envVars, pageVars, px>>

\* the Groq call throws, or its completion has no content
GroqThrows(s, which) ==
  /\ CallOf(s, which).pc = "groq"
  /\ LET call == GroqFails(CallOf(s, which)) IN
       /\ subs' = IF which = "main" THEN [subs EXCEPT ![s].main = call]
                  ELSE [subs EXCEPT ![s].title = call]
       /\ statusMessage' = CurrentStatus(call)
  /\ UNCHANGED <<appVars, envVars, pageVars, store, isLoading, error, px>>

\* the Gemini call (vision or fallback) returns its text
GeminiReturns(s, which, text) ==
  /\ CallOf(s, which).pc \in {"vision", "fallback"}
  /\ Settle(s, which, CallSucceeds(CallOf(s, which), text))
  /\ UNCHANGED <<appVars, envVars, pageVars, px>>

\* the Gemini call throws
GeminiThrows(s, which, message) ==
  /\ CallOf(s, which).pc \in {"vision", "fallback"}
  /\ Settle(s, which, CallFails(CallOf(s, which), message))
  /\ UNCHANGED <<appVars, envVars, pageVars, px>>

SubIds == 1..Len(subs)
Whiches == {"main", "title"}

Next ==
  \/ \E c \in ChatIdSet : SelectChat(c)
  \/ HandleNewChat
  \/ \E att \in Attachments : HandleSubmit(att)
  \/ \E s \in SubIds : CreateChatFails(s)
  \/ \E s \in SubIds : CreateChatReturns(s)
  \/ \E s \in SubIds : AddMessageReturns(s)
  \/ \E s \in SubIds, w \in Whiches, t \in GroqTexts : GroqReturns(s, w, t)
  \/ \E s \in SubIds, w \in Whiches : GroqThrows(s, w)
  \/ \E s \in SubIds, w \in Whiches, t \in GeminiTexts : GeminiReturns(s, w, t)
  \/ \E s \in SubIds, w \in Whiches, m \in GeminiErrors : GeminiThrows(s, w, m)

Spec == Init /\ [][Next]_vars

\* every provider call that is awaited eventually resolves or rejects
ProviderAnswers(s, w) ==
  /\ s \in SubIds
  /\ \/ \E t \in GroqTexts : GroqReturns(s, w, t)
     \/ GroqThrows(s, w)
     \/ \E t \in GeminiTexts : GeminiReturns(s, w, t)
     \/ \E m \in GeminiErrors : GeminiThrows(s, w, m)

(* ---------------- a conversation over several turns ---------------- *)
\* deleteChat: deleteDoc of the chat document; the documents of its messages
\* sub-collection stay.  Then setActiveChatId(null) if the chat was active.
ConfirmDelete(c) ==
  /\ store[c].exists
  /\ store' = [store EXCEPT ![c].exists = FALSE]
  /\ activeChatId' = IF activeChatId = c THEN NULL ELSE activeChatId
  /\ UNCHANGED <<activeSubject, socraticMode, envVars, pageVars, subs, hookVars, px>>

\* a submission of a text without attachment
ChatSubmit == HandleSubmit(NoAttachment)

NextChat ==
  \/ \E c \in ChatIdSet : SelectChat(c)
  \/ HandleNewChat
  \/ \E c \in ChatIdSet : ConfirmDelete(c)
  \/ ChatSubmit
  \/ \E s \in SubIds : CreateChatFails(s)
  \/ \E s \in SubIds : CreateChatReturns(s)
  \/ \E s \in SubIds : AddMessageReturns(s)
  \/ \E s \in SubIds, w \in Whiches, t \in GroqTexts : GroqReturns(s, w, t)
  \/ \E s \in SubIds, w \in Whiches : GroqThrows(s, w)
  \/ \E s \in SubIds, w \in Whiches, t \in GeminiTexts : GeminiReturns(s, w, t)
  \/ \E s \in SubIds, w \in Whiches, m \in GeminiErrors : GeminiThrows(s, w, m)

SpecChat == Init /\ [][NextChat]_vars

(* ---------------- one conversation, turn after turn ---------------- *)
TurnSubmit == Len(subs) < MaxCalls /\ SubmitStep(NoAttachment)

NextTurns ==
  \/ TurnSubmit
  \/ \E s \in SubIds : CreateChatFails(s)
  \/ \E s \in SubIds : CreateChatReturns(s)
  \/ \E s \in SubIds : AddMessageReturns(s)
  \/ \E s \in SubIds, w \in Whiches, t \in GroqTexts : GroqReturns(s, w, t)
  \/ \E s \in SubIds, w \in Whiches : GroqThrows(s, w)
  \/ \E s \in SubIds, w \in Whiches, t \in GeminiTexts : GeminiReturns(s, w, t)
  \/ \E s \in SubIds, w \in Whiches, m \in GeminiErrors : GeminiThrows(s, w, m)

SpecTurns == Init /\ [][NextTurns]_vars

(* ---------------- regenerate ---------------- *)
\* deleteMessage: deleteDoc of the message document with this id
DeleteMessage(st, chatId, messageId) ==
  LET keep == {i \in 1..Len(st[chatId].ids) : st[chatId].ids[i] # messageId}
      pos(k) == CHOOSE i \in keep : Cardinality({j \in keep : j <= i}) = k
  IN [st EXCEPT ![chatId].messages = [k \in 1..Cardinality(keep) |-> st[chatId].messages[pos(k)]],
                ![chatId].ids = [k \in 1..Cardinality(keep) |-> st[chatId].ids[pos(k)]]]

\* messages.slice(0, -2)
SliceOffLastTwo(messages) ==
  SubSeq(messages, 1, IF Len(messages) >= 2 THEN Len(messages) - 2 ELSE 0)

\* handleRegenerate from its entry to the await of deleteMessage.  With an
\* empty message list lastMsg.role throws and the handler ends.
HandleRegenerate ==
  /\ Len(subs) < MaxCalls
  /\ LET deletes == Messages # <<>> /\ Last(Messages).role = "model"
     IN subs' = Append(subs,
                  [NoSub EXCEPT !.handler = "handleRegenerate",
                                !.pc = IF deletes THEN "deleteMessage" ELSE "done",
                                !.lastMsgId = IF deletes THEN Last(store[activeChatId].ids) ELSE 0,
                                !.subject = activeSubject,
                                !.messages = Messages,
                                !.currentChatId = activeChatId])
  /\ UNCHANGED <<appVars, envVars, pageVars, store, hookVars, px>>

\* messages[messages.length - 2] is a USER message
HasLastUserMsg(sub) ==
  /\ Len(sub.messages) >= 2
  /\ sub.messages[Len(sub.messages) - 1].role = "user"

\* Mutant: the history keeps the user message that is sent again.
RegenerateCallStart_KeepsUserTurn(sub) ==
  LET lastUserMsg == sub.messages[Len(sub.messages) - 1] IN
  SendMessageStart(lastUserMsg.content, sub.subject, SubSeq(sub.messages, 1, Len(sub.messages) - 1),
                   lastUserMsg.attachment, FALSE, FALSE, preferredLanguage, groqApiKey)

\* sendMessage(lastUserMsg.content, activeSubject, messages.slice(0, -2), lastUserMsg.attachment)
RegenerateCallStart(sub) ==
  LET lastUserMsg == sub.messages[Len(sub.messages) - 1] IN
  SendMessageStart(lastUserMsg.content, sub.subject, SliceOffLastTwo(sub.messages),
                   lastUserMsg.attachment, FALSE, FALSE, preferredLanguage, groqApiKey)

\* deleteMessage(lastMsg.id) resolves; the call starts if the message before
\* the deleted one is a USER message
RegenerateDeleteReturns(s) ==
  /\ subs[s].pc = "deleteMessage"
  /\ store' = DeleteMessage(store, subs[s].currentChatId, subs[s].lastMsgId)
  /\ IF HasLastUserMsg(subs[s])
     THEN LET sub == subs[s]
              lastUserMsg == sub.messages[Len(sub.messages) - 1]
              main == RegenerateCallStart(sub)
          IN /\ subs' = [subs EXCEPT ![s] = [sub EXCEPT !.pc = "awaitAI",
                                                       !.userText = lastUserMsg.content,
                                                       !.attachment = lastUserMsg.attachment,
                                                       !.main = main]]
             /\ isLoading' = TRUE
             /\ error' = NULL
             /\ statusMessage' = CurrentStatus(main)
     ELSE /\ subs' = [subs EXCEPT ![s].pc = "done"]
          /\ UNCHANGED hookVars
  /\ UNCHANGED <<appVars, envVars, pageVars, px>>

NextRegenerate ==
  \/ \E c \in ChatIdSet : SelectChat(c)
  \/ HandleNewChat
  \/ HandleRegenerate
  \/ \E s \in SubIds : RegenerateDeleteReturns(s)
  \/ \E s \in SubIds, t \in GroqTexts : GroqReturns(s, "main", t)
  \/ \E s \in SubIds : GroqThrows(s, "main")
  \/ \E s \in SubIds, t \in GeminiTexts : GeminiReturns(s, "main", t)
  \/ \E s \in SubIds, m \in GeminiErrors : GeminiThrows(s, "main", m)

\* a second conversation stored before the session starts, whose last
\* question carries a text file
ShortChat == NewChatId(1)
ShortChatDoc == [exists |-> TRUE, title |-> <<"short">>, messages |-> SubSeq(OldChatMessages, 1, 2),
                 ids |-> DocIds(2), added |-> 2]

InitRegenerate ==
  /\ activeChatId = NULL
  /\ \E st \in Sessions :
       /\ activeSubject = st.subject
       /\ socraticMode = st.socraticMode
       /\ preferredLanguage = st.language
       /\ isAnonymous = st.isAnonymous
  /\ groqApiKey \in BOOLEAN
  /\ store = [c \in ChatIdSet |->
               IF c = OldChat THEN OldChatDoc
               ELSE IF c = ShortChat THEN ShortChatDoc
               ELSE NoChatDoc]
  /\ subs = <<>>
  /\ isLoading = FALSE
  /\ error = NULL
  /\ statusMessage = NULL
  /\ px = NoProxyCall
  /\ tools = NoTools
  /\ bubble = NoBubble
  /\ parser = NoParse

SpecRegenerate == InitRegenerate /\ [][NextRegenerate]_vars

(* ---------------- the hook alone: concurrent callers ---------------- *)
HookHistories == {<<>>, OldChatMessages}

\* sendMessage(text, subject, previousMessages, attachment, socraticMode)
\* called by any caller at any time: the function has no guard of its own
HookSend(previousMessages, attachment) ==
  /\ Len(subs) < MaxCalls
  /\ LET n == Len(subs) + 1
         call == SendMessageStart(UserText(n), activeSubject, previousMessages, attachment,
                                  socraticMode, FALSE, preferredLanguage, groqApiKey)
     IN /\ subs' = Append(subs, [NoSub EXCEPT !.pc = "awaitAI", !.userText = UserText(n),
                                             !.subject = activeSubject, !.socraticMode = socraticMode,
                                             !.attachment = attachment, !.messages = previousMessages,
                                             !.main = call])
        /\ isLoading' = TRUE
        /\ error' = NULL
        /\ statusMessage' = CurrentStatus(call)
  /\ UNCHANGED <<appVars, envVars, pageVars, store, px>>

NextHook ==
  \/ \E h \in HookHistories, a \in Attachments : HookSend(h, a)
  \/ \E s \in SubIds, t \in GroqTexts : GroqReturns(s, "main", t)
  \/ \E s \in SubIds : GroqThrows(s, "main")
  \/ \E s \in SubIds, t \in GeminiTexts : GeminiReturns(s, "main", t)
  \/ \E s \in SubIds, m \in GeminiErrors : GeminiThrows(s, "main", m)

SpecHook == Init /\ [][NextHook]_vars

\* the scheduling assumption of the hook: an awaited provider call does not
\* stay pending for ever
FairnessHook == WF_vars(\E s \in SubIds : ProviderAnswers(s, "main"))

SpecHookLive == SpecHook /\ FairnessHook

(* ---------------- prompt and history construction alone ---------------- *)
InitPrompt ==
  /\ activeChatId = NULL
  /\ activeSubject = "Math"
  /\ socraticMode = FALSE
  /\ preferredLanguage \in Languages
  /\ isAnonymous = FALSE
  /\ groqApiKey \in BOOLEAN
  /\ store = [c \in ChatIdSet |->
               IF c = OldChat
               THEN OldChatDoc
               ELSE NoChatDoc]
  /\ subs = <<>>
  /\ isLoading = FALSE
  /\ error = NULL
  /\ statusMessage = NULL
  /\ px = NoProxyCall
  /\ tools = NoTools
  /\ bubble = NoBubble
  /\ parser = NoParse

\* one sendMessage call at a time, with every combination of its arguments;
\* only the latest call is kept
PromptSend(subject, previousMessages, attachment, socratic, reasoningMode) ==
  /\ \A s \in SubIds : ~InFlight(subs[s].main)
  /\ LET call == SendMessageStart(UserText(1), subject, previousMessages, attachment,
                                  socratic, reasoningMode, preferredLanguage, groqApiKey)
     IN /\ subs' = <<[NoSub EXCEPT !.pc = "awaitAI", !.userText = UserText(1),
                                   !.subject = subject, !.socraticMode = socratic,
                                   !.attachment = attachment, !.messages = previousMessages,
                                   !.main = call]>>
        /\ isLoading' = TRUE
        /\ error' = NULL
        /\ statusMessage' = CurrentStatus(call)
  /\ UNCHANGED <<appVars, envVars, pageVars, store, px>>

NextPrompt ==
  \/ \E subject \in Subjects, h \in HookHistories, a \in Attachments, so \in BOOLEAN, r \in BOOLEAN :
       PromptSend(subject, h, a, so, r)
  \/ \E s \in SubIds, t \in GroqTexts : GroqReturns(s, "main", t)
  \/ \E s \in SubIds : GroqThrows(s, "main")
  \/ \E s \in SubIds, t \in GeminiTexts : GeminiReturns(s, "main", t)
  \/ \E s \in SubIds, m \in GeminiErrors : GeminiThrows(s, "main", m)

SpecPrompt == InitPrompt /\ [][NextPrompt]_vars

(* ---------------- study tools: flashcard and quiz generation ---------------- *)
ToolPages == {"ToolsPage", "NotesHubPage"}
ToolKinds == {"flashcards", "quiz"}

\* A response is a sequence of tokens: "{" and "}" are braces, the tokens of
\* JsonMembers are members of a JSON object ("cards" and "questions" hold an
\* array, "cards:str" and "questions:str" hold a string), any other token is
\* text that is not JSON.
JsonMembers == {"title", "cards", "questions", "cards:str", "questions:str"}

ToolResponses ==
  { <<"{", "title", "cards", "}">>,
    <<"{", "title", "questions", "}">>,
    <<"txt", "{", "cards", "}", "txt">>,
    <<"txt", "{", "questions", "}", "txt">>,
    <<"txt">>,
    <<"{", "txt", "}">>,
    <<"{", "title", "}">>,
    <<"{", "cards:str", "questions:str", "}">>,
    <<"{", "cards", "questions", "}", "txt", "{", "}">>,
    <<"{", "title", "{", "}", "cards", "questions", "}">>,
    <<"{", "cards", "questions">> }

ToolPrompt(page, kind) ==
  IF kind = "flashcards"
  THEN <<"Create exactly 10 flashcards ", page, " You MUST respond with ONLY valid JSON">>
  ELSE <<"Create a 5-question multiple choice quiz ", page, " You MUST respond with ONLY valid JSON">>

LastIndexOf(s, tok) ==
  IF tok \in Range(s) THEN CHOOSE i \in 1..Len(s) : s[i] = tok /\ \A j \in (i+1)..Len(s) : s[j] # tok ELSE 0

\* response.match(/\{[\s\S]*\}/): the star is greedy, so the match runs from
\* the first opening brace to the last closing brace; NULL when there is none
RegexMatch(response) ==
  LET i == IndexOf(response, "{")
      j == LastIndexOf(response, "}")
  IN IF i = 0 \/ j < i THEN NULL ELSE SubSeq(response, i, j)

\* the nesting depth after the first k tokens
Depth(s, k) ==
  Cardinality({i \in 1..k : s[i] = "{"}) - Cardinality({i \in 1..k : s[i] = "}"})

\* JSON.parse(text) returns an object (it throws otherwise)
JsonValid(text) ==
  /\ Len(text) >= 2
  /\ text[1] = "{"
  /\ \A k \in 1..Len(text) : text[k] \in {"{", "}"} \cup JsonMembers
  /\ \A k \in 1..(Len(text) - 1) : Depth(text, k) >= 1
  /\ Depth(text, Len(text)) = 0

\* the members of the parsed object itself
ParsedMembers(text) == {text[k] : k \in {i \in 2..Len(text) : Depth(text, i - 1) = 1}} \cap JsonMembers

\* parsed.cards && Array.isArray(parsed.cards) on ToolsPage, parsed.cards on
\* NotesHubPage; the same with parsed.questions for a quiz
ShapeAccepted(page, kind, members) ==
  LET arr == IF kind = "flashcards" THEN "cards" ELSE "questions"
      str == IF kind = "flashcards" THEN "cards:str" ELSE "questions:str"
  IN IF page = "ToolsPage" THEN arr \in members ELSE arr \in members \/ str \in members

FailureNotice(kind) ==
  IF kind = "flashcards" THEN "Failed to generate flashcards. Please try again."
  ELSE "Failed to generate quiz. Please try again."

\* handleCreateFlashcards / handleCreateQuiz up to the await of sendMessage
ToolsGenerate(page, kind) ==
  /\ tools.pc = "idle"
  /\ tools.runs < MaxCalls
  /\ tools' = [tools EXCEPT !.pc = "awaitAI", !.page = page, !.kind = kind,
                            !.call = SendMessageStart(ToolPrompt(page, kind), "General", <<>>, NoAttachment,
                                                      FALSE, FALSE, preferredLanguage, groqApiKey),
                            !.response = <<>>, !.jsonMatch = NULL, !.isGenerating = TRUE,
                            !.notice = NULL, !.created = FALSE,
                            !.runs = @ + 1, !.requests = @ + 1]
  /\ UNCHANGED <<appVars, envVars, store, subs, hookVars, px, bubble, parser>>

\* sendMessage has returned: match, parse, save, catch and finally
ToolsSettle(call) ==
  LET response == call.result
      m == RegexMatch(response)
      parseThrows == m # NULL /\ ~JsonValid(m)
      accepted == m # NULL /\ JsonValid(m) /\ ShapeAccepted(tools.page, tools.kind, ParsedMembers(m))
      alerted == parseThrows /\ tools.page = "ToolsPage"
  IN tools' = [tools EXCEPT !.pc = "idle", !.call = call, !.response = response, !.jsonMatch = m,
                            !.isGenerating = FALSE,
                            !.notice = IF alerted THEN FailureNotice(tools.kind) ELSE NULL,
                            !.alerts = IF alerted THEN Append(@, FailureNotice(tools.kind)) ELSE @,
                            !.created = accepted,
                            !.saved = IF accepted THEN Append(@, tools.kind) ELSE @]

ToolsGroqReturns(text) ==
  /\ tools.call.pc = "groq"
  /\ ToolsSettle(CallSucceeds(tools.call, text))
  /\ UNCHANGED <<appVars, envVars, store, subs, hookVars, px, bubble, parser>>

ToolsGroqThrows ==
  /\ tools.call.pc = "groq"
  /\ tools' = [tools EXCEPT !.call = GroqFails(tools.call)]
  /\ UNCHANGED <<appVars, envVars, store, subs, hookVars, px, bubble, parser>>

ToolsGeminiReturns(text) ==
  /\ tools.call.pc = "fallback"
  /\ ToolsSettle(CallSucceeds(tools.call, text))
  /\ UNCHANGED <<appVars, envVars, store, subs, hookVars, px, bubble, parser>>

ToolsGeminiThrows(message) ==
  /\ tools.call.pc = "fallback"
  /\ ToolsSettle(CallFails(tools.call, message))
  /\ UNCHANGED <<appVars, envVars, store, subs, hookVars, px, bubble, parser>>

NextTools ==
  \/ \E page \in ToolPages, kind \in ToolKinds : ToolsGenerate(page, kind)
  \/ \E t \in ToolResponses : ToolsGroqReturns(t)
  \/ ToolsGroqThrows
  \/ \E t \in ToolResponses : ToolsGeminiReturns(t)
  \/ \E m \in GeminiErrors : ToolsGeminiThrows(m)

SpecTools == Init /\ [][NextTools]_vars

(* ---------------- ReasoningBlockParser ---------------- *)
MaxTokens == 5

OpenTag == "<reasoning>"
CloseTag == "</reasoning>"
Whitespace == {" "}
\* the tokens of a raw response: the two delimiter tags, a word, a blank
ParseTokens == {OpenTag, CloseTag, "w"} \cup Whitespace
RawTexts == UNION {[1..k -> ParseTokens] : k \in 0..MaxTokens}

WhitespaceOnly(t) == Range(t) \subseteq Whitespace

\* Mutant: only the empty segment is dropped, a blank one is kept.
Segment_KeepBlank(kind, t) ==
  IF t = <<>> THEN <<>> ELSE <<[kind |-> kind, text |-> t]>>

\* a segment of the output; a whitespace-only segment is dropped
Segment(kind, t) ==
  IF WhitespaceOnly(t) THEN <<>> ELSE <<[kind |-> kind, text |-> t]>>

\* One linear pass over the non-overlapping delimited regions: the text up to
\* the first opening tag is prose, the text up to the first closing tag after
\* it is reasoning, and the scan goes on behind that closing tag.  Without a
\* closing tag the rest of the text is prose.
RECURSIVE ParseSegments(_)
ParseSegments(s) ==
  LET i == IndexOf(s, OpenTag)
      rest == SubSeq(s, i + 1, Len(s))
      j == IndexOf(rest, CloseTag)
  IN IF i = 0 \/ j = 0 THEN Segment("prose", s)
     ELSE Segment("prose", SubSeq(s, 1, i - 1))
          \o Segment("reasoning", SubSeq(rest, 1, j - 1))
          \o ParseSegments(SubSeq(rest, j + 1, Len(rest)))

InitParse ==
  /\ activeChatId = NULL
  /\ activeSubject = "Math"
  /\ socraticMode = FALSE
  /\ preferredLanguage = "en"
  /\ isAnonymous = FALSE
  /\ groqApiKey = TRUE
  /\ store = [c \in ChatIdSet |-> IF c = OldChat THEN OldChatDoc ELSE NoChatDoc]
  /\ subs = <<>>
  /\ isLoading = FALSE
  /\ error = NULL
  /\ statusMessage = NULL
  /\ px = NoProxyCall
  /\ tools = NoTools
  /\ bubble = NoBubble
  /\ parser \in {[NoParse EXCEPT !.text = t] : t \in RawTexts}

\* the caller applies the parser to the returned string
ParseText ==
  /\ parser.pc = "raw"
  /\ parser' = [parser EXCEPT !.pc = "parsed", !.segments = ParseSegments(parser.text)]
  /\ UNCHANGED <<appVars, envVars, store, subs, hookVars, px, tools, bubble>>

NextParse == ParseText

SpecParse == InitParse /\ [][NextParse]_vars

(* ---------------- ChatBubble: typewriter ---------------- *)
TypewriterSpeed == 15
RecentWindow == 3000

\* message.content of an AI message, one token per character
Content(n) == [i \in 1..n |-> i]
BubbleContents == {Content(3), Content(250)}
\* the age of the message (now - message.timestamp, in ms) at the first render
MountAges == {0, 1500, 3000}

\* shouldAnimate = !isUser && isRecent && !isMobile, for an AI message
ShouldAnimate(age, isMobile) == age < RecentWindow /\ ~isMobile

\* first render and first run of the effect
BubbleMount(content, age, isMobile) ==
  /\ bubble.pc = "unmounted"
  /\ LET animate == ShouldAnimate(age, isMobile) IN
     bubble' = [pc |-> IF animate THEN "running" ELSE "static",
                content |-> content, isMobile |-> isMobile, mountAge |-> age, age |-> age,
                shouldAnimate |-> animate,
                displayedContent |-> IF animate THEN <<>> ELSE content,
                currentIndex |-> 0, intervalId |-> animate]
  /\ UNCHANGED <<appVars, envVars, store, subs, hookVars, px, tools, parser>>

\* the interval callback fires after speed ms; setDisplayedContent renders
\* the component again, which evaluates isRecent and shouldAnimate anew
BubbleTick ==
  /\ bubble.pc = "running"
  /\ bubble.intervalId
  /\ LET now == bubble.age + TypewriterSpeed IN
     IF bubble.currentIndex < Len(bubble.content)
     THEN LET animate == ShouldAnimate(now, bubble.isMobile) IN
          bubble' = [bubble EXCEPT !.age = now,
                                   !.displayedContent = SubSeq(bubble.content, 1, bubble.currentIndex + 1),
                                   !.currentIndex = @ + 1,
                                   !.shouldAnimate = animate,
                                   !.pc = IF animate THEN "running" ELSE "effect"]
     ELSE bubble' = [bubble EXCEPT !.age = now, !.intervalId = FALSE, !.pc = "static"]
  /\ UNCHANGED <<appVars, envVars, store, subs, hookVars, px, tools, parser>>

\* shouldAnimate has changed to false: the cleanup clears the interval and
\* the effect sets the whole content
BubbleEffect ==
  /\ bubble.pc = "effect"
  /\ bubble' = [bubble EXCEPT !.intervalId = FALSE, !.displayedContent = bubble.content,
                              !.pc = "static"]
  /\ UNCHANGED <<appVars, envVars, store, subs, hookVars, px, tools, parser>>

NextBubble ==
  \/ \E c \in BubbleContents, a \in MountAges, m \in BOOLEAN : BubbleMount(c, a, m)
  \/ BubbleTick
  \/ BubbleEffect

SpecBubble == Init /\ [][NextBubble]_vars

(* ---------------- server-proxied variant ---------------- *)
\* string lengths in characters of the tokens whose length matters
CharLen(tok) ==
  CASE tok = "long" -> 5001
    [] tok = "big64" -> 2800000
    [] OTHER -> 4
RECURSIVE StrLen(_)
StrLen(s) == IF s = <<>> THEN 0 ELSE CharLen(Head(s)) + StrLen(Tail(s))

PromptLimit == 5000
FileLimit == 2097152

LongText == <<"long">>
EmptyImageAttachment == [type |-> "image", content |-> <<"data:image/png;base64", ",">>, fileName |-> "e.png", mimeType |-> "image/png"]
LargeImageAttachment == [type |-> "image", content |-> <<"data:image/png;base64", ",", "big64">>, fileName |-> "l.png", mimeType |-> "image/png"]
ProxyAttachments == Attachments \cup {EmptyImageAttachment, LargeImageAttachment}
ProxyTexts == {UserText(1), LongText}
ProxyHistories == {<<>>, OldChatMessages}

\* body: JSON.stringify({...}) of the fetch in sendMessage
ProxyBody(text, subject, previousMessages, attachment, socratic, reasoningMode, language) ==
  LET langInstruction == getLanguageInstruction(language)
      systemInstruction == SystemInstruction(subject, socratic, reasoningMode, language)
  IN [prompt |-> text,
      history |-> MessagesForAI(systemInstruction, previousMessages, text, attachment),
      fileData |-> IF attachment.type = "image" THEN SplitComma1(attachment.content) ELSE Undefined,
      reasoningMode |-> reasoningMode,
      socraticMode |-> socratic,
      subject |-> subject,
      langInstruction |-> langInstruction,
      mimeType |-> attachment.mimeType]

\* handler: the input validation; 0 when the request passes
HandlerValidate(body) ==
  IF Truthy(body.prompt) /\ StrLen(body.prompt) > PromptLimit THEN 400
  ELSE IF Truthy(body.fileData) /\ StrLen(body.fileData) * 3 > 4 * FileLimit THEN 400
  ELSE 0

\* handler: "Prepare system instruction"
HandlerBasePrompt(body) ==
  <<"You are an expert Tutor specialized in ", IF body.subject = "" THEN "general topics" ELSE body.subject,
    ". IMPORTANT: Always use proper grammar">>
  \o ModeBlock(body.socraticMode, body.reasoningMode)
  \o SubjectDirective(body.subject)
  \o body.langInstruction

\* handler: "Traffic Router", the upstream request it issues
HandlerRoute(body) ==
  IF Truthy(body.fileData)
  THEN [provider |-> "gemini", systemInstruction |-> HandlerBasePrompt(body),
        messages |-> body.history \o <<[role |-> "user", content |-> body.prompt]>>,
        image |-> body.fileData,
        mimeType |-> IF body.mimeType = "" THEN "image/jpeg" ELSE body.mimeType,
        temperature |-> 0, max_tokens |-> 0]
  ELSE [provider |-> "groq", systemInstruction |-> <<>>,
        messages |-> <<[role |-> "system", content |-> HandlerBasePrompt(body)]>>
                     \o body.history \o <<[role |-> "user", content |-> body.prompt]>>,
        image |-> <<>>, mimeType |-> "",
        temperature |-> IF body.reasoningMode THEN 3 ELSE 7,
        max_tokens |-> IF body.reasoningMode THEN 2048 ELSE 1024]

\* sendMessage (server-proxied) from its entry to await getIdToken()
ProxySend(text, previousMessages, attachment, reasoningMode) ==
  /\ px.pc \in {"idle", "done"}
  /\ px' = [NoProxyCall EXCEPT !.pc = "token", !.text = text, !.previousMessages = previousMessages,
                               !.attachment = attachment,
                               !.body = ProxyBody(text, activeSubject, previousMessages, attachment,
                                                  socraticMode, reasoningMode, preferredLanguage)]
  /\ isLoading' = TRUE
  /\ statusMessage' = IF reasoningMode THEN "Reasoning deeply..." ELSE "Thinking..."
  /\ error' = NULL
  /\ UNCHANGED <<appVars, envVars, pageVars, store, subs>>

\* catch + finally of sendMessage
ProxySettle(call, ok, text, message) ==
  /\ px' = [call EXCEPT !.pc = "done",
                        !.result = IF ok THEN text ELSE ErrorText,
                        !.errorMessage = IF ok THEN NULL
                                         ELSE IF message = "" THEN DefaultErrorMessage ELSE message]
  /\ error' = IF ok THEN error ELSE IF message = "" THEN DefaultErrorMessage ELSE message
  /\ isLoading' = FALSE
  /\ statusMessage' = NULL

\* getIdToken() yields a token: the POST to /api/chat leaves
ProxyTokenReturns ==
  /\ px.pc = "token"
  /\ px' = [px EXCEPT !.pc = "posted", !.method = "POST", !.authorization = <<"Bearer ", "token">>]
  /\ UNCHANGED <<appVars, envVars, pageVars, store, subs, hookVars>>

\* no current user, no token: "User must be logged in to use AI"
ProxyNoToken ==
  /\ px.pc = "token"
  /\ ProxySettle(px, FALSE, <<>>, "User must be logged in to use AI")
  /\ UNCHANGED <<appVars, envVars, pageVars, store, subs>>

\* handler: authHeader.startsWith('Bearer ')
HasBearer(authorization) == authorization # <<>> /\ authorization[1] = "Bearer "

\* Mutant: the Authorization header is looked at before the method.
HandlerEntry_AuthFirst ==
  /\ px.pc = "posted"
  /\ px' = IF ~HasBearer(px.authorization)
           THEN [px EXCEPT !.pc = "responded",
                           !.response = [status |-> 401, text |-> <<>>,
                                         error |-> "Unauthorized: No token provided"]]
           ELSE IF px.method # "POST"
           THEN [px EXCEPT !.pc = "responded",
                           !.response = [status |-> 405, text |-> <<>>, error |-> "Method Not Allowed"]]
           ELSE [px EXCEPT !.pc = "verify"]
  /\ UNCHANGED <<appVars, envVars, pageVars, store, subs, hookVars>>

\* handler: the method check and the Auth Guard, up to await verifyIdToken
HandlerEntry ==
  /\ px.pc = "posted"
  /\ px' = IF px.method # "POST"
           THEN [px EXCEPT !.pc = "responded",
                           !.response = [status |-> 405, text |-> <<>>, error |-> "Method Not Allowed"]]
           ELSE IF ~HasBearer(px.authorization)
           THEN [px EXCEPT !.pc = "responded",
                           !.response = [status |-> 401, text |-> <<>>,
                                         error |-> "Unauthorized: No token provided"]]
           ELSE [px EXCEPT !.pc = "verify"]
  /\ UNCHANGED <<appVars, envVars, pageVars, store, subs, hookVars>>

\* handler: verifyIdToken rejects the token
HandlerRejectsToken ==
  /\ px.pc = "verify"
  /\ px' = [px EXCEPT !.pc = "responded",
                      !.response = [status |-> 401, text |-> <<>>, error |-> "Unauthorized: Invalid token"]]
  /\ UNCHANGED <<appVars, envVars, pageVars, store, subs, hookVars>>

\* handler: the token verifies; validation, prompt, routing, up to the await
\* of the upstream fetch
HandlerAccepts ==
  /\ px.pc = "verify"
  /\ Len(px.authorization) > 1
  /\ IF HandlerValidate(px.body) # 0
     THEN px' = [px EXCEPT !.pc = "responded", !.verified = TRUE,
                           !.response = [status |-> HandlerValidate(px.body), text |-> <<>>,
                                         error |-> "Bad Request"]]
     ELSE px' = [px EXCEPT !.pc = "upstream", !.verified = TRUE,
                           !.upstream = @ \o <<HandlerRoute(px.body)>>]
  /\ UNCHANGED <<appVars, envVars, pageVars, store, subs, hookVars>>

\* handler: the upstream provider answers 2xx with a completion
UpstreamReturns(text) ==
  /\ px.pc = "upstream"
  /\ text \in (IF Last(px.upstream).provider = "groq" THEN GroqTexts ELSE GeminiTexts)
  /\ px' = [px EXCEPT !.pc = "responded", !.response = [status |-> 200, text |-> text, error |-> ""]]
  /\ UNCHANGED <<appVars, envVars, pageVars, store, subs, hookVars>>

\* handler: the upstream fetch fails or answers non-2xx: outer catch, 500
UpstreamFails ==
  /\ px.pc = "upstream"
  /\ px' = [px EXCEPT !.pc = "responded",
                      !.response = [status |-> 500, text |-> <<>>, error |-> "Internal Server Error"]]
  /\ UNCHANGED <<appVars, envVars, pageVars, store, subs, hookVars>>

\* sendMessage: the response of /api/chat arrives
ProxyReceives ==
  /\ px.pc = "responded"
  /\ ProxySettle(px, px.response.status = 200, px.response.text, px.response.error)
  /\ UNCHANGED <<appVars, envVars, pageVars, store, subs>>

NextProxy ==
  \/ \E t \in ProxyTexts, h \in ProxyHistories, a \in ProxyAttachments, r \in BOOLEAN : ProxySend(t, h, a, r)
  \/ ProxyTokenReturns
  \/ ProxyNoToken
  \/ HandlerEntry
  \/ HandlerRejectsToken
  \/ HandlerAccepts
  \/ \E t \in GroqTexts \cup GeminiTexts : UpstreamReturns(t)
  \/ UpstreamFails
  \/ ProxyReceives

SpecProxy == Init /\ [][NextProxy]_vars

(* ---------------- the /api/chat handler and any HTTP client ---------------- *)
Methods == {"POST", "GET"}
\* the Authorization header: absent, another scheme, Bearer without and with a token
Authorizations == {<<>>, <<"Basic ", "token">>, <<"Bearer ">>, <<"Bearer ", "token">>}

\* a request arrives at the handler
HandlerRequest(method, authorization, text, previousMessages, attachment, reasoningMode) ==
  /\ px.pc \in {"idle", "responded"}
  /\ px' = [NoProxyCall EXCEPT !.pc = "posted", !.method = method, !.authorization = authorization,
                               !.text = text, !.previousMessages = previousMessages,
                               !.attachment = attachment,
                               !.body = ProxyBody(text, activeSubject, previousMessages, attachment,
                                                  socraticMode, reasoningMode, preferredLanguage)]
  /\ UNCHANGED <<appVars, envVars, pageVars, store, subs, hookVars>>

NextHandler ==
  \/ \E m \in Methods, auth \in Authorizations, t \in ProxyTexts, h \in ProxyHistories,
        a \in ProxyAttachments, r \in BOOLEAN : HandlerRequest(m, auth, t, h, a, r)
  \/ HandlerEntry
  \/ HandlerRejectsToken
  \/ HandlerAccepts
  \/ \E t \in GroqTexts \cup GeminiTexts : UpstreamReturns(t)
  \/ UpstreamFails

SpecHandler == Init /\ [][NextHandler]_vars

(* ======================= properties ======================= *)
\* the sendMessage calls started so far (browser-side hook)
AllCalls == {c \in {CallOf(s, w) : s \in SubIds, w \in Whiches} : c.pc # "none"}
LegIndices(call, leg) == {i \in 1..Len(call.log) : call.log[i].leg = leg}
NumLeg(call, leg) == Cardinality(LegIndices(call, leg))
GroqFailed(call) == \E i \in LegIndices(call, "primary") : call.log[i].outcome = "fail"
FallbackFailed(call) == \E i \in LegIndices(call, "fallback") : call.log[i].outcome = "fail"
IsImageCall(call) == call.attachment.type = "image"
Settled(call) == call.pc = "done"
ProxyUpstream(provider) == {i \in 1..Len(px.upstream) : px.upstream[i].provider = provider}

\* C1: every sendMessage call with an image attachment issues exactly one
\* vision (Gemini) call and never calls Groq, in the browser-side hook and in
\* the server-proxied hook alike.
C1_ImageRouting ==
  /\ \A call \in AllCalls : IsImageCall(call) =>
       /\ NumLeg(call, "primary") = 0
       /\ NumLeg(call, "fallback") = 0
       /\ NumLeg(call, "vision") = 1
  /\ (px.pc # "idle" /\ px.attachment.type = "image") =>
       /\ ProxyUpstream("groq") = {}
       /\ Cardinality(ProxyUpstream("gemini")) <= 1
       /\ px.pc = "done" => Cardinality(ProxyUpstream("gemini")) = 1

\* C2: in a text-only call whose primary attempt failed, the fallback is
\* invoked exactly once, and neither Groq nor the fallback is invoked twice.
C2_SingleFallbackHop ==
  \A call \in AllCalls : ~IsImageCall(call) =>
    /\ NumLeg(call, "primary") <= 1
    /\ NumLeg(call, "fallback") <= 1
    /\ NumLeg(call, "vision") = 0
    /\ (GroqFailed(call) \/ ~groqApiKey) => NumLeg(call, "fallback") = 1

C2_Witness ==
  \E call \in AllCalls : ~IsImageCall(call) /\ Settled(call) /\ GroqFailed(call)
                         /\ NumLeg(call, "fallback") = 1

\* C3: when the primary and the fallback attempt of a call both fail, the
\* call returns the one fixed failure text and no provider error text.
C3_UnifiedFailure ==
  \A call \in AllCalls :
    (Settled(call) /\ (GroqFailed(call) \/ ~groqApiKey) /\ FallbackFailed(call)) =>
      /\ call.result = ErrorText
      /\ \A m \in GroqErrors \cup GeminiErrors : m \notin Range(call.result)

C3_Witness ==
  \E call \in AllCalls : Settled(call) /\ GroqFailed(call) /\ FallbackFailed(call)
                         /\ call.result = ErrorText

PrimaryLegFailed(call) == GroqFailed(call) \/ (call.pc # "none" /\ ~groqApiKey)

\* C4 (as stated): a fallback call is only issued after a Groq call of the
\* same invocation has failed, and never after a Groq success.
C4_FallbackOnlyAfterGroqCallFailed ==
  \A call \in AllCalls : \A i \in LegIndices(call, "fallback") :
    \E j \in 1..(i - 1) : call.log[j].provider = "groq" /\ call.log[j].outcome = "fail"

\* C4 (amended): a fallback call is only issued after the primary attempt of
\* the same invocation has failed -- a Groq call that failed, or no Groq call
\* at all because the Groq key is missing -- and a call whose Groq call
\* succeeded has issued no other provider call.
C4_FallbackOnlyAfterPrimaryFailed ==
  \A call \in AllCalls :
    /\ \A i \in LegIndices(call, "fallback") :
         \/ i = 1 /\ ~groqApiKey
         \/ i = 2 /\ call.log[1].provider = "groq" /\ call.log[1].outcome = "fail"
    /\ (Len(call.log) >= 1 /\ call.log[1].provider = "groq" /\ call.log[1].outcome # "fail")
         => Len(call.log) = 1

C4_Witness ==
  \E call \in AllCalls : Settled(call) /\ Len(call.log) = 1
                         /\ call.log[1].provider = "groq" /\ call.log[1].outcome = "ok"

OkIndices(call) == {i \in 1..Len(call.log) : call.log[i].outcome = "ok"}
ExpectedLeg(call) ==
  IF IsImageCall(call) THEN "vision" ELSE IF PrimaryLegFailed(call) THEN "fallback" ELSE "primary"

\* C5: the text a successful call returns is the unmodified completion of
\* exactly one provider call of that invocation, the one its route ends on.
C5_ResultIsOneCompletion ==
  \A call \in AllCalls : (Settled(call) /\ call.errorMessage = NULL) =>
    /\ OkIndices(call) = {Len(call.log)}
    /\ call.result = Last(call.log).text
    /\ Last(call.log).leg = ExpectedLeg(call)

C5_Witness ==
  \E call \in AllCalls : Settled(call) /\ call.errorMessage = NULL
                         /\ Last(call.log).leg = "fallback" /\ call.result \in GeminiTexts

\* C6: when the vision call of an image request fails, the call fails and
\* no further provider call is issued.
C6_VisionFailureIsFinal ==
  \A call \in AllCalls :
    (IsImageCall(call) /\ Len(call.log) >= 1 /\ call.log[1].outcome = "fail") =>
      /\ Len(call.log) = 1
      /\ Settled(call)
      /\ call.result = ErrorText

C6_Witness ==
  \E call \in AllCalls : IsImageCall(call) /\ Settled(call) /\ Len(call.log) = 1
                         /\ call.log[1].leg = "vision" /\ call.log[1].outcome = "fail"

\* C7 (as stated): with the Groq key missing, a text request fails at once
\* and no provider call is attempted.
C7_MissingKeyIsFatal ==
  \A call \in AllCalls : (~IsImageCall(call) /\ ~groqApiKey) =>
    /\ call.log = <<>>
    /\ Settled(call)
    /\ call.result = ErrorText

\* C7 (amended): with the Groq key missing, a text request issues no Groq
\* call and goes straight to the fallback, which is called exactly once; the
\* call fails only if that fallback call fails.
C7_MissingKeyFallsBack ==
  \A call \in AllCalls : (~IsImageCall(call) /\ ~groqApiKey) =>
    /\ NumLeg(call, "primary") = 0
    /\ Len(call.log) = 1
    /\ call.log[1].leg = "fallback"
    /\ Settled(call) => (call.result = ErrorText <=> call.log[1].outcome = "fail")

C7_Witness ==
  \E call \in AllCalls : ~IsImageCall(call) /\ ~groqApiKey /\ Settled(call)
                         /\ call.log[1].leg = "fallback" /\ call.result \in GeminiTexts

\* C8: while the orchestration call of a submission is in flight, the busy
\* flag is true and handleSubmit accepts no further submission.
C8_BusyWhileInFlight ==
  \A s \in SubIds : InFlight(subs[s].main) => (isLoading /\ ~HandleSubmitAccepts)

\* C9: when the auto-title call fails, the submission still stores the user
\* message and the AI response, and the chat title is not set from the failed
\* call (it stays the temporary title).
C9_TitleFailureInvisible ==
  \A s \in SubIds :
    (Settled(subs[s].title) /\ subs[s].title.errorMessage # NULL /\ store[subs[s].currentChatId].exists) =>
      /\ store[subs[s].currentChatId].title = TempTitle(subs[s].userText)
      /\ Settled(subs[s].main) =>
           store[subs[s].currentChatId].messages =
             <<UserMsg(subs[s].userText, subs[s].attachment), ModelMsg(subs[s].main.result)>>

\* tokens that only delimit an attachment inside a request text
Delimiters == {"\n[File]: ", "\n\nFile Content:\n", "\n[Attachment: ", "]"}
Payload(text) == Range(text) \ Delimiters

\* C10: the fallback request carries the system instruction, the history
\* turns (with the text-file content of prior turns) and the user text plus
\* text-attachment content of the primary request of the same call.
C10_FallbackCarriesPrimaryRequest ==
  \A call \in AllCalls :
    \A i \in LegIndices(call, "primary"), j \in LegIndices(call, "fallback") :
      LET g == call.log[i].messages
          f == call.log[j]
      IN /\ f.systemInstruction = g[1].content
         /\ Len(f.history) = Len(g) - 2
         /\ \A k \in 1..Len(f.history) :
              /\ (f.history[k].role = "user") <=> (g[k + 1].role = "user")
              /\ Payload(g[k + 1].content) \subseteq Payload(f.history[k].text)
         /\ Payload(g[Len(g)].content) \subseteq Payload(f.message)

PendingRequests(call) == {i \in 1..Len(call.log) : call.log[i].outcome = "pending"}
\* the provider requests awaiting their answer, over all calls on the hook
InFlightRequests ==
  {r \in SubIds \X Whiches \X (1..2) :
     r[3] \in PendingRequests(CallOf(r[1], r[2]))}

\* C11 (as stated): at most one provider call is in flight at any time, over
\* all sendMessage calls, and within a call a request follows the observed
\* failure of the one before it.
C11_NoTwoProviderCallsInFlight ==
  /\ Cardinality(InFlightRequests) <= 1
  /\ \A call \in AllCalls : \A i \in 2..Len(call.log) : call.log[i - 1].outcome = "fail"

\* C11 (amended): within one sendMessage call at most one provider call is in
\* flight, and the fallback request is issued only after the failure of the
\* primary has been observed; calls of different invocations may overlap.
C11_SequentialWithinCall ==
  \A call \in AllCalls :
    /\ Cardinality(PendingRequests(call)) <= 1
    /\ \A i \in 2..Len(call.log) : call.log[i - 1].outcome = "fail"
    /\ \A i \in 1..Len(call.events) :
         call.events[i] = <<"request", "fallback">> =>
           \E j \in 1..(i - 1) : call.events[j] \in {<<"outcome", "fail">>, <<"throw", "Groq API Key missing">>}

C11_Witness ==
  \E call \in AllCalls : Len(call.log) = 2 /\ call.log[1].outcome = "fail"
                         /\ call.log[2].leg = "fallback" /\ call.log[2].outcome = "pending"

\* the tokens of the turns of a history, attachments included
TurnTokens(msgs) ==
  UNION {Range(msgs[i].content) \cup Range(msgs[i].attachment.content) \cup {msgs[i].attachment.fileName}
         : i \in 1..Len(msgs)}
\* what a call may put into its requests: its own arguments and its prompt
OwnTokens(call) ==
  Range(call.systemInstruction) \cup TurnTokens(call.previousMessages) \cup Range(call.text)
  \cup Range(call.attachment.content) \cup Delimiters
\* every token a provider request carries
RequestTokens(req) ==
  Range(req.systemInstruction) \cup Range(req.message) \cup Range(req.image)
  \cup UNION {Range(req.history[i].text) : i \in 1..Len(req.history)}
  \cup UNION {Range(req.messages[i].content) : i \in 1..Len(req.messages)}

\* C12: every provider request of a call carries only that call's own
\* history turns, user text, attachment and system instruction, also while
\* another call with a different history is in flight on the same hook; a
\* call with an empty history sends no history entry at all.
C12_NoCrossCallLeak ==
  \A call \in AllCalls : \A i \in 1..Len(call.log) :
    /\ RequestTokens(call.log[i]) \subseteq OwnTokens(call)
    /\ Len(call.log[i].history) = (IF call.log[i].provider = "gemini" THEN Len(call.previousMessages) ELSE 0)
    /\ Len(call.log[i].messages) = (IF call.log[i].provider = "groq" THEN Len(call.previousMessages) + 2 ELSE 0)

C12_Witness ==
  \E s \in SubIds, t \in SubIds :
    /\ s # t
    /\ subs[s].main.previousMessages = <<>> /\ subs[t].main.previousMessages # <<>>
    /\ InFlight(subs[s].main) /\ InFlight(subs[t].main)
    /\ Len(subs[s].main.log) = 2 /\ Len(subs[t].main.log) = 2

\* the messages of the exceptions the providers raise
ProviderErrorTexts == GroqErrors \cup GeminiErrors

\* C13: no provider error text reaches the string a sendMessage call
\* returns, the error field of the hook, a stored chat message or a chat title.
C13_NoProviderErrorText ==
  /\ error \notin ProviderErrorTexts
  /\ \A call \in AllCalls : Range(call.result) \cap ProviderErrorTexts = {}
  /\ \A c \in ChatIdSet :
       /\ Range(store[c].title) \cap ProviderErrorTexts = {}
       /\ \A i \in 1..Len(store[c].messages) :
            Range(store[c].messages[i].content) \cap ProviderErrorTexts = {}

\* C14: every sendMessage call eventually settles, given that an awaited
\* provider call eventually returns or throws (from any state with a call in
\* flight a state is reached in which every started call has settled); a call
\* issues at most two provider calls; and the step in which a call settles, on
\* any path, sets isLoading to false and statusMessage to null.
C14_SettlesAndResets ==
  /\ (\E s \in SubIds : InFlight(CallOf(s, "main")))
       ~> (\A s \in SubIds : Settled(CallOf(s, "main")))
  /\ [](\A call \in AllCalls : Len(call.log) <= 2)
  /\ [][\A s \in SubIds : \A w \in Whiches :
          (InFlight(CallOf(s, w)) /\ Settled(CallOf(s, w))')
            => (isLoading' = FALSE /\ statusMessage' = NULL)]_vars

C14_Witness ==
  \E call \in AllCalls : Settled(call) /\ Len(call.log) = 2 /\ call.result = ErrorText
                         /\ ~isLoading /\ statusMessage = NULL

ThinkingLabels == {<<"status", "Thinking...">>, <<"status", "Reasoning deeply...">>}
AnalyzingLabel == <<"status", "Analyzing image...">>
BackupLabel == <<"status", "Using backup model...">>
\* the events by which a call observes that its primary attempt has failed
PrimaryFailureEvents == {<<"outcome", "fail">>, <<"throw", "Groq API Key missing">>}
Before(ev, i, set) == \E j \in 1..(i - 1) : ev[j] \in set

\* C15: in the order of events of one call, the thinking label precedes the
\* primary request, the analyzing-image label precedes the vision request,
\* and the backup label comes after the observed failure of the primary
\* attempt and right before the fallback request; the backup label is never
\* set in a call with an image or in a call whose primary request succeeded.
C15_StatusBeforeCall ==
  \A call \in AllCalls :
    LET ev == call.events IN
    /\ \A i \in 1..Len(ev) :
         /\ ev[i] = <<"request", "primary">> => Before(ev, i, ThinkingLabels)
         /\ ev[i] = <<"request", "vision">> => Before(ev, i, {AnalyzingLabel})
         /\ ev[i] = <<"request", "fallback">> => (i > 1 /\ ev[i - 1] = BackupLabel)
         /\ ev[i] = BackupLabel =>
              /\ Before(ev, i, PrimaryFailureEvents)
              /\ ~Before(ev, i, {<<"request", "fallback">>})
              /\ i < Len(ev) /\ ev[i + 1] = <<"request", "fallback">>
         /\ (ev[i] = <<"outcome", "ok">> /\ ev[i - 1] = <<"request", "primary">>)
              => BackupLabel \notin Range(ev)
    /\ IsImageCall(call) => BackupLabel \notin Range(ev)

C15_Witness ==
  \E call \in AllCalls, other \in AllCalls :
    /\ call.events = <<<<"status", "Thinking...">>, <<"request", "primary">>, <<"outcome", "fail">>,
                       BackupLabel, <<"request", "fallback">>, <<"outcome", "ok">>>>
    /\ other.events = <<<<"status", "Thinking...">>, <<"request", "primary">>, <<"outcome", "ok">>>>

\* C16: in the server-proxied variant a text-only request whose Groq call
\* has failed is answered by a Gemini attempt before it is reported as failed.
C16_ProxyFallsBack ==
  (/\ px.pc \in {"responded", "done"}
   /\ px.response.status = 500
   /\ ProxyUpstream("groq") # {})
    => ProxyUpstream("gemini") # {}

ModeTokens == {"MODE: Deep Reasoning", "MODE: Socratic Tutor", "MODE: Direct Answer"}
SubjectDirectiveTokens == {" Use LaTeX for math equations.", " Provide clean, commented code snippets."}
LanguageDirectiveHead == "\n\nIMPORTANT: You MUST respond entirely in "
Positions(si, set) == {i \in 1..Len(si) : si[i] \in set}
\* the system instruction a request carries
RequestInstruction(req) ==
  IF req.provider = "groq" THEN req.messages[1].content ELSE req.systemInstruction

\* C17: the system instruction of every request contains exactly one mode
\* block, chosen by precedence reasoning > socratic > direct; its parts come
\* in the order base sentence, mode block, subject directive, language
\* directive; the language directive is last, and absent for language 'en'.
C17_OneModeBlockFixedOrder ==
  \A call \in AllCalls : \A k \in 1..Len(call.log) :
    LET si == RequestInstruction(call.log[k])
        modes == Positions(si, ModeTokens)
        dirs == Positions(si, SubjectDirectiveTokens)
        langs == Positions(si, {LanguageDirectiveHead})
    IN /\ modes = {4}
       /\ si[4] = (IF call.reasoningMode THEN "MODE: Deep Reasoning"
                   ELSE IF call.socraticMode THEN "MODE: Socratic Tutor"
                   ELSE "MODE: Direct Answer")
       /\ si[1] = "You are an expert Tutor specialized in " /\ si[2] = call.subject
       /\ \A d \in dirs : d = 5
       /\ \A l \in langs : l = Len(si) - 2 /\ l > 4 /\ \A d \in dirs : d < l
       /\ IF call.language = "en"
          THEN langs = {} /\ Len(si) = 4 + Cardinality(dirs)
          ELSE Cardinality(langs) = 1 /\ si[Len(si)] = call.language
               /\ Len(si) = 7 + Cardinality(dirs)

C17_Witness ==
  \E call \in AllCalls :
    /\ call.reasoningMode /\ call.socraticMode /\ call.language = "es" /\ call.subject = "Coding"
    /\ Len(call.log) = 2
    /\ RequestInstruction(call.log[1]) = RequestInstruction(call.log[2])
    /\ Len(RequestInstruction(call.log[2])) = 8

\* C19: the system instruction carries the math-notation directive for
\* every math-family subject, the code-snippet directive for the coding
\* subject, and no subject directive for any other subject.
C19_SubjectDirective ==
  \A call \in AllCalls : \A k \in 1..Len(call.log) :
    LET si == RequestInstruction(call.log[k]) IN
    /\ (" Use LaTeX for math equations." \in Range(si)) <=> (call.subject \in MathFamily)
    /\ (" Provide clean, commented code snippets." \in Range(si)) <=> (call.subject = "Coding")

\* the history entries of a request as (role, text) pairs, in either shape
HistoryEntries(req) ==
  IF req.provider = "groq"
  THEN [i \in 1..(Len(req.messages) - 2) |->
          [role |-> req.messages[i + 1].role, text |-> req.messages[i + 1].content]]
  ELSE req.history
StartsWith(text, prefix) ==
  Len(text) >= Len(prefix) /\ SubSeq(text, 1, Len(prefix)) = prefix
EndsWith(text, suffix) ==
  Len(text) >= Len(suffix) /\ SubSeq(text, Len(text) - Len(suffix) + 1, Len(text)) = suffix
\* one prior turn against the history entry made of it
EntryMatchesTurn(entry, turn) ==
  /\ (entry.role = "user") <=> (turn.role = "user")
  /\ entry.role \in {"user", "assistant", "model"}
  /\ StartsWith(entry.text, turn.content)
  /\ turn.attachment.type = "text" =>
       (Len(entry.text) > Len(turn.content) /\ EndsWith(entry.text, turn.attachment.content))
  /\ turn.attachment.type # "text" => entry.text = turn.content

\* C20: in both history shapes every prior turn maps to exactly one entry,
\* in order and with its role; the content of a prior turn's text attachment
\* is appended to the entry's text; nothing of an image attachment is put
\* into the entry; an empty list of prior turns gives an empty history.
C20_HistoryShapes ==
  \A call \in AllCalls : \A k \in 1..Len(call.log) :
    LET h == HistoryEntries(call.log[k]) IN
    /\ Len(h) = Len(call.previousMessages)
    /\ \A i \in 1..Len(h) : EntryMatchesTurn(h[i], call.previousMessages[i])

(* ---------------- study tools ---------------- *)
\* the response of the latest finished generation run yields a JSON object
\* with the array the run asked for
YieldsExpectedObject ==
  LET m == RegexMatch(tools.response) IN
    /\ m # NULL
    /\ JsonValid(m)
    /\ (IF tools.kind = "flashcards" THEN "cards" ELSE "questions") \in ParsedMembers(m)

ToolsRunFinished == tools.pc = "idle" /\ tools.runs > 0

\* C21: when the text returned for a flashcard or quiz generation does not
\* yield a JSON object of the expected shape, the user is shown a
\* generation-failed notice, no deck or quiz is created, and no further
\* generation request is issued automatically.
C21_FailedGenerationIsNotified ==
  (ToolsRunFinished /\ ~YieldsExpectedObject) =>
    /\ tools.notice # NULL
    /\ ~tools.created
    /\ tools.requests = tools.runs

\* the first balanced {...} substring: from the first opening brace to the
\* closing brace that matches it
FirstBalanced(response) ==
  LET i == IndexOf(response, "{")
      rest == SubSeq(response, i, Len(response))
      closes == {k \in 1..Len(rest) : Depth(rest, k) = 0}
  IN IF i = 0 \/ closes = {} THEN NULL
     ELSE SubSeq(rest, 1, CHOOSE k \in closes : \A l \in closes : k <= l)

\* C22: the text handed to the JSON parser is the first balanced {...}
\* substring of the response, so text after it, even text with further
\* braces, is excluded.
C22_ParsesFirstBalancedObject ==
  ToolsRunFinished =>
    /\ tools.jsonMatch = FirstBalanced(tools.response)

(* ---------------- reasoning blocks ---------------- *)
Tags == {OpenTag, CloseTag}

\* the raw text is P1, opening tag at i, R, closing tag at j, P2
RoundTripForm(t, i, j) ==
  /\ i < j
  /\ t[i] = OpenTag
  /\ t[j] = CloseTag
  /\ \A k \in (1..Len(t)) \ {i, j} : t[k] \notin Tags

\* no opening tag of the text has a closing tag behind it
NoMatchedPair(t) ==
  \A i, j \in 1..Len(t) : (t[i] = OpenTag /\ t[j] = CloseTag) => j < i

\* the non-blank ones of the given (kind, text) pairs, in order
RECURSIVE NonBlank(_)
NonBlank(pairs) ==
  IF pairs = <<>> THEN <<>>
  ELSE (IF Range(Head(pairs)[2]) \subseteq Whitespace THEN <<>>
        ELSE <<[kind |-> Head(pairs)[1], text |-> Head(pairs)[2]]>>)
       \o NonBlank(Tail(pairs))

\* C23: parsing P1, opening tag, R, closing tag, P2 yields exactly the
\* segments prose P1, reasoning R, prose P2 in this order, without the
\* whitespace-only ones; an opening tag without a matching closing tag yields
\* no reasoning segment and its text stays prose.
C23_ReasoningRoundTrip ==
  parser.pc = "parsed" =>
    LET t == parser.text IN
      /\ \A i, j \in 1..Len(t) :
           RoundTripForm(t, i, j) =>
             parser.segments = NonBlank(<< <<"prose", SubSeq(t, 1, i - 1)>>,
                                           <<"reasoning", SubSeq(t, i + 1, j - 1)>>,
                                           <<"prose", SubSeq(t, j + 1, Len(t))>> >>)
      /\ NoMatchedPair(t) =>
           /\ \A k \in 1..Len(parser.segments) : parser.segments[k].kind = "prose"
           /\ parser.segments = NonBlank(<< <<"prose", t>> >>)

\* a response with a blank prose part, a reasoning block and a closing prose part has been parsed
C23_Witness ==
  /\ parser.pc = "parsed"
  /\ parser.text = <<" ", OpenTag, "w", " ", CloseTag>>
  /\ parser.segments = <<[kind |-> "reasoning", text |-> <<"w", " ">>]>>

(* ---------------- auto-title ---------------- *)
\* submission s has created its conversation
CreatedChat(s) == subs[s].handler = "handleSubmit" /\ subs[s].currentChatId = NewChatId(s)
TitleCallIssued(s) == subs[s].title.pc # "none"
\* the request carries no turn of a conversation
EmptyHistory(req) ==
  IF req.provider = "groq" THEN Len(req.messages) = 2 ELSE req.history = <<>>

\* C24: an auto-title call is issued exactly once per newly created
\* conversation, on the submission that creates it, always with an empty
\* history, and never for a submission to an already existing conversation.
C24_TitleOncePerNewChat ==
  /\ \A s \in SubIds :
       /\ TitleCallIssued(s) <=> CreatedChat(s)
       /\ TitleCallIssued(s) =>
            /\ subs[s].title.text = TitlePrompt(subs[s].userText)
            /\ subs[s].title.previousMessages = <<>>
            /\ \A i \in 1..Len(subs[s].title.log) : EmptyHistory(subs[s].title.log[i])
  /\ \A c \in ChatIdSet :
       Cardinality({s \in SubIds : TitleCallIssued(s) /\ subs[s].currentChatId = c})
         = IF c # OldChat /\ store[c].added > 0 THEN 1 ELSE 0

\* the first submission has created a conversation, its title call has asked
\* both providers and its main call carries an attachment
C24_Witness ==
  /\ Len(subs) >= 1
  /\ CreatedChat(1)
  /\ Len(subs[1].title.log) = 2
  /\ subs[1].attachment # NoAttachment

(* ---------------- regenerate, navigation, stored responses ---------------- *)
InitAdded(c) == IF c = OldChat THEN Len(OldChatMessages) ELSE 0
IsRegenerate(s) == subs[s].handler = "handleRegenerate"
LastIsModel(sub) == sub.messages # <<>> /\ Last(sub.messages).role = "model"
\* the last two messages rendered are a USER message and a MODEL message
EndsWithTurn(sub) == LastIsModel(sub) /\ HasLastUserMsg(sub)
PastDelete(s) == IsRegenerate(s) /\ subs[s].pc \in {"awaitAI", "done"} /\ subs[s].lastMsgId # 0

UserMessageStored(s) ==
  /\ subs[s].handler = "handleSubmit"
  /\ subs[s].pc \in {"awaitAI", "done"}
  /\ subs[s].currentChatId # NULL

\* msg is stored in conversation c behind the user message of submission s
StoredBehindUserMessage(c, s, msg) ==
  \E i, j \in 1..Len(store[c].messages) :
    /\ i < j
    /\ store[c].messages[i] = UserMsg(subs[s].userText, subs[s].attachment)
    /\ store[c].messages[j] = msg

ModelCount(msgs) == Cardinality({i \in 1..Len(msgs) : msgs[i].role = "model"})
ErrorMsg == ModelMsg(ErrorText)

\* one MODEL message per submission whose main call has settled, the fixed
\* text when the call has failed
OneModelMessagePerCall ==
  /\ \A c \in ChatIdSet :
       ModelCount(store[c].messages) =
         ModelCount(SubSeq(store[c].messages, 1, InitAdded(c)))
         + Cardinality({s \in SubIds : UserMessageStored(s) /\ subs[s].currentChatId = c
                                       /\ Settled(subs[s].main)})
  /\ \A s \in SubIds :
       (UserMessageStored(s) /\ Settled(subs[s].main) /\ subs[s].main.errorMessage # NULL) =>
         /\ subs[s].main.result = ErrorText
         /\ StoredBehindUserMessage(subs[s].currentChatId, s, ErrorMsg)

\* every error message that was stored in the conversation when submission s
\* was made is, at its position, in the history of the main call of s
HistoryCarriesErrors(s) ==
  LET sub == subs[s]
      stored == store[sub.currentChatId].messages
  IN /\ Len(sub.messages) <= Len(stored)
     /\ sub.messages = SubSeq(stored, 1, Len(sub.messages))
     /\ \A p \in 1..Len(sub.messages) :
          stored[p] = ErrorMsg =>
            /\ p <= Len(sub.main.previousMessages)
            /\ sub.main.previousMessages[p] = ErrorMsg

RevealStarted == bubble.pc # "unmounted" /\ ShouldAnimate(bubble.mountAge, bubble.isMobile)

\* C26: while the typewriter reveal of an AI message runs, the displayed text
\* is at every tick a prefix of the message content and grows by one
\* character per tick; once it equals the content the timer is cleared and
\* the text does not change any more.
C26_OneCharacterPerTick ==
  RevealStarted =>
    /\ bubble.displayedContent = SubSeq(bubble.content, 1, Len(bubble.displayedContent))
    /\ Len(bubble.displayedContent) = bubble.currentIndex
    /\ ~bubble.intervalId => bubble.displayedContent = bubble.content

(* ---------------- the /api/chat handler ---------------- *)
RoleCount(msgs, role) == Cardinality({k \in 1..Len(msgs) : msgs[k].role = role})

\* C28: the message list the handler sends to Groq for a text request holds
\* the system instruction exactly once, as the first message, the current
\* user text exactly once, as the last message, and the prior turns in their
\* order in between.
C28_ProxyGroqMessageList ==
  \A i \in ProxyUpstream("groq") :
    LET msgs == px.upstream[i].messages
        prior == px.previousMessages
    IN /\ RoleCount(msgs, "system") = 1
       /\ msgs[1].role = "system"
       /\ Len(msgs) = Len(prior) + 2
       /\ Last(msgs).role = "user"
       /\ StartsWith(Last(msgs).content, px.text)
       /\ Cardinality({k \in 1..Len(msgs) : msgs[k].role = "user" /\ StartsWith(msgs[k].content, px.text)}) = 1
       /\ \A k \in 1..Len(prior) :
            /\ k + 1 <= Len(msgs)
            /\ msgs[k + 1].role = (IF prior[k].role = "user" THEN "user" ELSE "assistant")
            /\ StartsWith(msgs[k + 1].content, prior[k].content)

PromptTooLong == Truthy(px.body.prompt) /\ StrLen(px.body.prompt) > PromptLimit
FileTooLarge == Truthy(px.body.fileData) /\ StrLen(px.body.fileData) * 3 > 4 * FileLimit

\* C30: the handler issues no upstream call unless the method is POST, the
\* Authorization header carries a Bearer token that verifies, the prompt has
\* at most 5000 characters and the file data at most 2 MB; a request that
\* fails a check is answered with 405, 401 or 400, checked in this order, and
\* a later error is answered with 500 and a generic message.
C30_HandlerValidation ==
  /\ px.upstream # <<>> =>
       /\ px.method = "POST"
       /\ HasBearer(px.authorization)
       /\ px.verified
       /\ ~PromptTooLong
       /\ ~FileTooLarge
       /\ Len(px.upstream) = 1
  /\ px.pc = "responded" =>
       IF px.method # "POST" THEN px.response.status = 405
       ELSE IF ~HasBearer(px.authorization) \/ ~px.verified THEN px.response.status = 401
       ELSE IF PromptTooLong \/ FileTooLarge THEN px.response.status = 400
       ELSE /\ px.upstream # <<>>
            /\ px.response.status \in {200, 500}
            /\ px.response.status = 500 =>
                 /\ px.response.error = "Internal Server Error"
                 /\ px.response.text = <<>>

\* a GET request without Authorization header and with a prompt that is too
\* long has been answered with 405
C30_Witness ==
  /\ px.pc = "responded"
  /\ px.method = "GET"
  /\ ~HasBearer(px.authorization)
  /\ PromptTooLong
  /\ px.response.status = 405
  /\ px.upstream = <<>>

====
